---- MODULE Spec2Model ----
(***************************************************************************)
(* The hyperdrive web API of beaker (app/bg/web-apis/bg/hyperdrive.js):    *)
(* the gateway between calling pages and the drives.  Every public call    *)
(* is a small process: it resolves its drive, asks for write permission,   *)
(* checks quota and path, and then invokes the storage primitive.  Calls   *)
(* of different pages interleave at every await.                           *)
(*                                                                         *)
(* Strings of the program that the code inspects (URLs, paths) are         *)
(* sequences of tokens: a token is a separator ("/", ".", ":", "://") or   *)
(* a run of other characters.                                              *)
(***************************************************************************)
EXTENDS Integers, Sequences, FiniteSets, TLC

\* ------------------------------------------------------------------ bounds
\* invocations of public operations in one behaviour
MaxInvocations == 2
\* largest byte length of one write (data, settings, or copied entry)
MaxBytes == 2

\* ------------------------------------------------------- program constants
\* lib/const DAT_QUOTA_DEFAULT_BYTES_ALLOWED, scaled to the byte lengths above
DAT_QUOTA_DEFAULT_BYTES_ALLOWED == 3
\* lib/const DRIVE_MANIFEST_FILENAME
DRIVE_MANIFEST_FILENAME == "index.json"

\* largest accounted size of a drive the model follows
MaxSize == DAT_QUOTA_DEFAULT_BYTES_ALLOWED + MaxBytes

\* a call in flight occupies a slot; two calls can be in flight at once, which
\* is what a race between two calls of the gateway takes
Slots == {1, 2}
\* the drive keys (64 hex digits each in the program)
Keys == {"k1", "k2"}
\* what parseDriveUrl gives for a URL without +version
NoVersion == 0

\* ------------------------------------------------------------ the senders
\* sender.getURL() of the calling page: scheme, then the tokens after "://"
\* (after ":" for beaker:)
BeakerApp == [scheme |-> "beaker", rest |-> <<"library", "/">>]
NetworkApp == [scheme |-> "https", rest |-> <<"hyperdrive", ".", "network", "/">>]
DrivePage == [scheme |-> "hyper", rest |-> <<"blog", "/">>]
WebPage == [scheme |-> "https", rest |-> <<"site", ".", "example", "/">>]
Senders == {BeakerApp, NetworkApp, DrivePage, WebPage}

\* /^(beaker:|https?:\/\/(.*\.)?hyperdrive\.network(:|\/))/.test(sender.getURL())
isSenderBeaker(sender) ==
  \/ sender.scheme = "beaker"
  \/ /\ sender.scheme \in {"http", "https"}
     /\ \E i \in 1..Len(sender.rest) :
          /\ i + 3 <= Len(sender.rest)
          /\ i = 1 \/ sender.rest[i - 1] = "."
          /\ sender.rest[i] = "hyperdrive"
          /\ sender.rest[i + 1] = "."
          /\ sender.rest[i + 2] = "network"
          /\ sender.rest[i + 3] \in {":", "/"}

\* the first token of the part after "://": the hostname of the sender's URL
Hostname(url) == IF url.rest = <<>> THEN "" ELSE url.rest[1]

\* archivesDb.extractOrigin(sender.getURL()): protocol, slashes and host
extractOrigin(url) ==
  LET IsSep(t) == t \in {"/", ":"}
      n == IF \E i \in 1..Len(url.rest) : IsSep(url.rest[i])
             THEN (CHOOSE i \in 1..Len(url.rest) :
                     IsSep(url.rest[i]) /\ \A j \in 1..(i - 1) : ~IsSep(url.rest[j])) - 1
             ELSE Len(url.rest)
  IN [scheme |-> url.scheme, host |-> SubSeq(url.rest, 1, n)]

\* senderOrigin.startsWith('beaker:')
OriginStartsWithBeaker(origin) == origin.scheme = "beaker"

\* hyperDns.resolveName(hostname): a key is its own name, "blog" is a DNS
\* name of drive k1, every other name fails to resolve
resolveName(hostname) ==
  IF hostname \in Keys THEN hostname
  ELSE IF hostname = "blog" THEN "k1"
  ELSE "ENOTFOUND"

\* lookupUrlDriveKey(sender.getURL()): the sender URL is never a bare key, so
\* the HYPERDRIVE_HASH_REGEX test on the whole URL fails
lookupUrlDriveKey(url) ==
  IF url.scheme # "hyper" THEN "false"
  ELSE IF resolveName(Hostname(url)) = "ENOTFOUND" THEN "false"
  ELSE resolveName(Hostname(url))

\* ------------------------------------------------------------------ paths
\* the pathnames the callers give, as parseDriveUrl leaves them (still
\* percent-encoded): a file, the manifest with an encoded dot and no leading
\* slash,
\* a directory with a trailing slash, a name with a character outside
\* DRIVE_VALID_PATH_REGEX
RawPaths ==
  { <<"/", "notes.txt">>, <<"index%2Ejson">>,
    <<"/", "dir", "/">>, <<"/", "no|pe">> }

\* decodeURIComponent on one run of characters
DecodeToken(t) == IF t = "index%2Ejson" THEN "index.json" ELSE t

decodeURIComponent(str) == [i \in 1..Len(str) |-> DecodeToken(str[i])]

\* normalizeFilepath (lines 771-777)
normalizeFilepath(str) ==
  LET s == decodeURIComponent(str)
  IN IF (\A i \in 1..Len(s) : s[i] # "://") /\ (s = <<>> \/ s[1] # "/")
       THEN <<"/">> \o s
       ELSE s

\* DRIVE_VALID_PATH_REGEX.test(path): every character is an allowed one
ValidPathRegexTest(p) == p # <<>> /\ \A i \in 1..Len(p) : p[i] # "no|pe"

\* assertValidPath (lines 735-739): "ok" or the name of the error thrown
assertValidPath(p) ==
  IF ~ValidPathRegexTest(p) THEN "InvalidPath" ELSE "ok"

\* assertValidFilePath (lines 728-733)
assertValidFilePath(filepath) ==
  IF filepath # <<>> /\ filepath[Len(filepath)] = "/" THEN "InvalidPath"
  ELSE assertValidPath(filepath)

\* assertUnprotectedFilePath that lets every sender through
assertUnprotectedFilePath_Open(filepath, sender) == "ok"

\* assertUnprotectedFilePath (lines 638-645)
assertUnprotectedFilePath(filepath, sender) ==
  IF isSenderBeaker(sender) THEN "ok"
  ELSE IF filepath = <<"/", DRIVE_MANIFEST_FILENAME>> THEN "ProtectedFileNotWritable"
  ELSE "ok"

\* assertQuotaPermission that refuses a write that fills the allowance exactly
assertQuotaPermission_Strict(metaSize, senderOrigin, byteLength) ==
  IF OriginStartsWithBeaker(senderOrigin) THEN "ok"
  ELSE IF metaSize + byteLength >= DAT_QUOTA_DEFAULT_BYTES_ALLOWED THEN "QuotaExceeded"
  ELSE "ok"

\* assertQuotaPermission (lines 709-726), metaSize being meta.size as
\* archivesDb.getMeta returns it at the time of the call
assertQuotaPermission(metaSize, senderOrigin, byteLength) ==
  IF OriginStartsWithBeaker(senderOrigin) THEN "ok"
  ELSE IF metaSize + byteLength > DAT_QUOTA_DEFAULT_BYTES_ALLOWED THEN "QuotaExceeded"
  ELSE "ok"

\* ------------------------------------------------------------- operations
\* the operations whose first statement after resolving the drive is
\* "if (isHistoric) throw new ArchiveNotWritableError"
PathOps == {"unlink", "mkdir", "symlink", "mount"}
HistoricCheckedOps == {"writeFile", "configure"} \cup PathOps
\* the operations that ask for write permission
WriteOps == HistoricCheckedOps \cup {"copy"}

Versions == {NoVersion, 1}
\* configure's settings argument is "invalid" (not an object), "empty" (an
\* object without any of DRIVE_CONFIGURABLE_FIELDS) or "title" ({title: 'x'})

\* drives.getDriveCheckout(drive, version): isHistoric exactly when a version
\* is given
isHistoric(version) == version # NoVersion

\* BeforePause without the isHistoric test
BeforePause_NoHistoricTest(op, version, settings) ==
  IF op = "configure" /\ settings = "invalid" THEN "Error"
  ELSE IF op = "configure" /\ settings = "empty" THEN "return"
  ELSE IF op = "query" THEN "return"
  ELSE "pause"

\* the code of an operation between lookupDrive and pause(): the error it
\* throws, "return" when it returns without asking for anything (configure
\* without manifest updates, query), "pause" when it goes on to pause()
BeforePause(op, version, settings) ==
  IF op \in HistoricCheckedOps /\ isHistoric(version) THEN "ArchiveNotWritable"
  ELSE IF op = "configure" /\ settings = "invalid" THEN "Error"
  ELSE IF op = "configure" /\ settings = "empty" THEN "return"
  ELSE IF op = "query" THEN "return"
  ELSE "pause"

\* WritePermissionBypass that takes a page of any drive for the drive's own
WritePermissionBypass_AnyDrivePage(sender, driveKey) ==
  \/ isSenderBeaker(sender)
  \/ lookupUrlDriveKey(sender) # "false"

\* WritePermissionBypass without the test of the sender's own drive
WritePermissionBypass_BeakerOnly(sender, driveKey) == isSenderBeaker(sender)

\* assertWritePermission (672-681): beaker and the drive's own pages are
\* allowed before the permission store is asked
WritePermissionBypass(sender, driveKey) ==
  \/ isSenderBeaker(sender)
  \/ lookupUrlDriveKey(sender) = driveKey

\* permissions.queryPermission('modifyDrive:' + key, sender) on the store
queryPermission(store, sender, driveKey) ==
  <<extractOrigin(sender), driveKey>> \in store

\* the checks of an operation between assertWritePermission and resume(), in
\* the order of the code
PostChecks(op) ==
  CASE op = "writeFile" -> <<"quota", "validFilePath", "unprotected">>
    [] op = "unlink" -> <<"unprotected">>
    [] op \in {"mkdir", "symlink", "mount"} -> <<"validPath", "unprotected">>
    [] op = "configure" -> <<"quota">>
    [] op = "copy" -> <<"unprotected", "quota">>
    [] OTHER -> <<>>

\* one check of PostChecks: "ok" or the name of the error it throws
CheckOne(name, call, metaSize) ==
  CASE name = "quota" ->
         assertQuotaPermission(metaSize, extractOrigin(call.sender), call.bytes)
    [] name = "validFilePath" -> assertValidFilePath(call.path)
    [] name = "validPath" -> assertValidPath(call.path)
    [] name = "unprotected" -> assertUnprotectedFilePath(call.path, call.sender)

\* the checks run in order and the first error is thrown
RECURSIVE FirstFailure(_, _, _)
FirstFailure(checks, call, metaSize) ==
  IF checks = <<>> THEN "ok"
  ELSE IF CheckOne(Head(checks), call, metaSize) # "ok"
    THEN CheckOne(Head(checks), call, metaSize)
  ELSE FirstFailure(Tail(checks), call, metaSize)

\* archivesDb.getMeta is awaited (716): the quota check is reached, by a
\* sender whose origin does not start with beaker:
RECURSIVE ReadsMeta(_, _)
ReadsMeta(checks, call) ==
  IF checks = <<>> THEN FALSE
  ELSE IF Head(checks) = "quota"
    THEN ~OriginStartsWithBeaker(extractOrigin(call.sender))
  ELSE IF CheckOne(Head(checks), call, 0) # "ok" THEN FALSE
  ELSE ReadsMeta(Tail(checks), call)

\* ---------------------------------------------------------------- inputs
\* what the calls of one behaviour ask for: the operation, the drive and the
\* arguments; the page that asks and the version of the drive it names vary
\* from call to call
Shapes ==
  [op : {"writeFile"}, key : Keys, src : {"none"}, path : RawPaths,
   bytes : 1..MaxBytes, settings : {"none"}]
  \cup
  [op : PathOps, key : Keys, src : {"none"}, path : RawPaths,
   bytes : {0}, settings : {"none"}]
  \cup
  [op : {"configure"}, key : Keys, src : {"none"}, path : {<<>>},
   bytes : 1..MaxBytes, settings : {"title"}]
  \cup
  [op : {"configure"}, key : Keys, src : {"none"}, path : {<<>>},
   bytes : {1}, settings : {"invalid", "empty"}]
  \cup
  [op : {"copy"}, key : Keys, src : Keys, path : RawPaths,
   bytes : 1..MaxBytes, settings : {"none"}]
  \cup
  \* the drive is "none" in a query without opts.drive and a loadDrive
  \* without a url
  [op : {"query", "loadDrive"}, key : Keys \cup {"none"}, src : {"none"},
   path : {<<>>}, bytes : {0}, settings : {"none"}]

\* the versions a URL of the operation can carry: the URL of the operations
\* that leave the version out of the model names the live drive
VersionsOf(op) == IF op \in HistoricCheckedOps THEN Versions ELSE {NoVersion}

\* A call is a record: its arguments (op, sender, key, src, version, path,
\* bytes, settings), where it stands (pc), whether it runs inside
\* auditLog.record (recorded), its timer's clock, and what it has done so far:
\* the permission queries and prompts it issued, whether the query found a
\* grant (sawGrant), the user's answer, the meta.size its quota check read
\* (-1: none), the storage primitives it invoked, its result, and the audit
\* entries written for it (logged).
VARIABLES
  shape,        \* the request the pages make in this behaviour
  calls,        \* slot -> the call in flight in it
  grants,       \* the permission store: <<origin, drive key>> with modifyDrive granted
  size,         \* drive key -> meta.size, the accounted bytes of the drive
  manifest,     \* drive key -> the title in the drive's manifest
  auditLog,     \* the audit log, oldest entry first
  invocations,  \* public operations invoked so far
  \* the drive registry and the calls followed await by await (ResolverSpec)
  request,      \* the request the pages make in this behaviour
  flows,        \* slot -> the call in flight in it, instruction by instruction
  registry,     \* drive key -> "absent", "loading" or "loaded"
  loadRequests, \* drive key -> drives.loadDrive calls the gateway made
  engineLoads,  \* drive key -> loads the storage engine started
  mutated,      \* the checkouts mutating storage primitives were invoked on
  \* one evaluation of a function of the gateway (QuerySpec, InfoSpec)
  queryRun,     \* a query over several drives: options, matches, results
  infoRun,      \* getInfo on two drive records: sender, records, results
  \* the creation and fork of drives (CreatorSpec)
  creations,    \* slot -> the createDrive or forkDrive call made in it
  \* one call of a page that navigates while the call is suspended (PageSpec)
  visit         \* the call, the URL of its sender now and at its start

\* the variables of the calls followed await by await
resolverVars == <<request, flows, registry, loadRequests, engineLoads, mutated>>
\* the variables of the function evaluations
pureVars == <<queryRun, infoRun>>
\* the variables of the creation of drives
creatorVars == <<creations>>
\* the variables of the navigating page
pageVars == <<visit>>

vars == <<shape, calls, grants, size, manifest, auditLog, invocations,
          resolverVars, pureVars, creatorVars, pageVars>>

\* the value of a variable a specification does not follow
Parked == "unused"

Idle ==
  [pc |-> "idle", op |-> "none", sender |-> BeakerApp, key |-> "none", src |-> "none",
   version |-> NoVersion, path |-> <<>>, bytes |-> 0, settings |-> "none",
   recorded |-> FALSE, clock |-> "off", queries |-> 0, prompts |-> 0,
   sawGrant |-> FALSE, answer |-> "none", metaSize |-> -1, stored |-> 0,
   result |-> "none", logged |-> <<>>]

Init ==
  /\ shape \in Shapes
  /\ calls = [c \in Slots |-> Idle]
  /\ grants = {}
  /\ \E s0 \in 0..DAT_QUOTA_DEFAULT_BYTES_ALLOWED : size = [k \in Keys |-> s0]
  /\ manifest = [k \in Keys |-> "untitled"]
  /\ auditLog = <<>>
  /\ invocations = 0
  /\ request = Parked /\ flows = Parked /\ registry = Parked
  /\ loadRequests = Parked /\ engineLoads = Parked /\ mutated = Parked
  /\ queryRun = Parked /\ infoRun = Parked /\ creations = Parked /\ visit = Parked

\* auditLog.record's entry for a call that ends with result res: the method
\* and the outcome (the caller of the entry is the call's sender)
AuditEntry(call, res) ==
  [action |-> call.op, outcome |-> IF res = "ok" THEN "success" ELSE "failure"]

\* the call of slot c returns or throws res; auditLog.record, when the call
\* runs inside it, appends the entry before the result reaches the caller
Finish(c, call, res) ==
  /\ calls' = [calls EXCEPT ![c] =
       [call EXCEPT !.pc = "done", !.result = res, !.clock = "off",
                    !.logged = IF call.recorded THEN Append(@, AuditEntry(call, res))
                               ELSE @]]
  /\ auditLog' = IF call.recorded THEN Append(auditLog, AuditEntry(call, res))
                 ELSE auditLog

\* the call of slot c goes on
Goto(c, call) ==
  /\ calls' = [calls EXCEPT ![c] = call]
  /\ UNCHANGED auditLog

\* ---------------------------------------------------------------- actions
\* An action is the code of a call from one access to the state the calls
\* share (permission store, drive size, manifest, audit log) to the next:
\* the statements in between touch only the call's own variables.

\* Mediate without "if (allowed) return true": the user is asked whatever
\* the permission store answers
Mediate_AlwaysAsks(c, call) ==
  LET before == BeforePause(call.op, call.version, call.settings)
      paused == [call EXCEPT !.clock = "paused"]
  IN IF before = "return" THEN Finish(c, call, "ok")
     ELSE IF before # "pause" THEN Finish(c, call, before)
     ELSE IF WritePermissionBypass(call.sender, call.key)
       THEN Goto(c, [paused EXCEPT !.pc = "checks"])
     ELSE Goto(c, [paused EXCEPT !.pc = "prompt", !.queries = @ + 1,
                                 !.prompts = @ + 1])

\* the statements of an operation inside auditLog.record and timer, from
\* lookupDrive to the answer of permissions.queryPermission
Mediate(c, call) ==
  LET before == BeforePause(call.op, call.version, call.settings)
      paused == [call EXCEPT !.clock = "paused"]
      allowed == queryPermission(grants, call.sender, call.key)
  IN IF before = "return" THEN Finish(c, call, "ok")
     ELSE IF before # "pause" THEN Finish(c, call, before)
     ELSE IF WritePermissionBypass(call.sender, call.key)
       THEN Goto(c, [paused EXCEPT !.pc = "checks"])
     ELSE IF allowed
       THEN Goto(c, [paused EXCEPT !.pc = "checks", !.queries = @ + 1,
                                   !.sawGrant = TRUE])
     ELSE \* permissions.requestPermission (688): the prompt is shown
          Goto(c, [paused EXCEPT !.pc = "prompt", !.queries = @ + 1,
                                 !.prompts = @ + 1])

\* a page invokes a public operation
Invoke(c, sender, version) ==
  LET key == shape.key
      call == [Idle EXCEPT !.op = shape.op, !.sender = sender, !.key = key,
                 !.src = shape.src, !.version = version,
                 !.bytes = shape.bytes, !.settings = shape.settings,
                 !.path = IF shape.op \in {"writeFile", "copy"} \cup PathOps
                            THEN normalizeFilepath(shape.path) ELSE <<>>]
      timed == [call EXCEPT !.recorded = TRUE, !.clock = "running"]
  IN /\ calls[c].pc = "idle"
     /\ invocations < MaxInvocations
     /\ invocations' = invocations + 1
     /\ UNCHANGED <<shape, grants, size, manifest, resolverVars, pureVars, creatorVars, pageVars>>
     /\ CASE shape.op = "loadDrive" ->
               \* loadDrive (125-131): no audit record, no timer
               IF key = "none" THEN Finish(c, call, "InvalidURL")
               ELSE Finish(c, call, "ok")
          [] shape.op = "query" ->
               \* query (518-522): without opts.drive it returns [] at once
               IF key = "none" THEN Finish(c, call, "ok")
               ELSE Mediate(c, timed)
          [] shape.op = "copy" ->
               \* copy (296-298): lookupDrive of the source and
               \* pda.readSize(srcpath), which throws when the source entry
               \* does not exist, come before auditLog.record
               \E found \in BOOLEAN :
                 IF found THEN Mediate(c, timed)
                 ELSE Finish(c, call, "NotFound")
          [] OTHER -> Mediate(c, timed)

\* the user answers the prompt; an approval is stored as a grant (688-690)
UserAnswer(c) ==
  LET call == calls[c]
  IN /\ call.pc = "prompt"
     /\ UNCHANGED <<shape, size, manifest, invocations, resolverVars, pureVars, creatorVars, pageVars>>
     /\ \E allowed \in BOOLEAN :
          IF allowed
            THEN /\ grants' = grants \cup {<<extractOrigin(call.sender), call.key>>}
                 /\ Goto(c, [call EXCEPT !.pc = "checks", !.answer = "allow"])
            ELSE /\ UNCHANGED grants
                 /\ Finish(c, [call EXCEPT !.answer = "deny"], "UserDenied")

\* Checks with the storage primitive invoked ahead of them: the write is made
\* whatever the checks say
Checks_AfterStore(c) ==
  LET call == calls[c]
      checks == PostChecks(call.op)
      metaSize == size[call.key]
      res == FirstFailure(checks, call, metaSize)
      grows == call.op \in {"writeFile", "copy"}
      written == [call EXCEPT !.stored = @ + 1,
                    !.metaSize = IF ReadsMeta(checks, call) THEN metaSize ELSE @]
  IN /\ call.pc = "checks"
     /\ grows => size[call.key] + call.bytes <= MaxSize
     /\ size' = IF grows THEN [size EXCEPT ![call.key] = @ + call.bytes] ELSE size
     /\ manifest' = IF call.op = "configure"
                      THEN [manifest EXCEPT ![call.key] = "x"] ELSE manifest
     /\ UNCHANGED <<shape, grants, invocations, resolverVars, pureVars, creatorVars, pageVars>>
     /\ Finish(c, written, res)

\* the checks after assertWritePermission, then resume()
Checks(c) ==
  LET call == calls[c]
      checks == PostChecks(call.op)
      metaSize == size[call.key]
      res == FirstFailure(checks, call, metaSize)
      seen == [call EXCEPT !.metaSize = IF ReadsMeta(checks, call) THEN metaSize ELSE @]
  IN /\ call.pc = "checks"
     /\ UNCHANGED <<shape, grants, size, manifest, invocations, resolverVars, pureVars, creatorVars, pageVars>>
     /\ IF res = "ok"
          THEN Goto(c, [seen EXCEPT !.pc = "store", !.clock = "running"])
          ELSE Finish(c, seen, res)

\* the storage primitive of the operation, on the live checkout
Store(c) ==
  LET call == calls[c]
      grows == call.op \in {"writeFile", "copy"}
  IN /\ call.pc = "store"
     /\ grows => size[call.key] + call.bytes <= MaxSize
     /\ size' = IF grows THEN [size EXCEPT ![call.key] = @ + call.bytes] ELSE size
     /\ manifest' = IF call.op = "configure"
                      THEN [manifest EXCEPT ![call.key] = "x"] ELSE manifest
     /\ UNCHANGED <<shape, grants, invocations, resolverVars, pureVars, creatorVars, pageVars>>
     /\ Finish(c, [call EXCEPT !.stored = @ + 1], "ok")

\* the result has reached the caller
Return(c) ==
  /\ calls[c].pc = "done"
  /\ calls' = [calls EXCEPT ![c] = Idle]
  /\ UNCHANGED <<shape, grants, size, manifest, auditLog, invocations,
                 resolverVars, pureVars, creatorVars, pageVars>>

Next ==
  \E c \in Slots :
    \/ \E sender \in Senders, version \in VersionsOf(shape.op) : Invoke(c, sender, version)
    \/ UserAnswer(c)
    \/ Checks(c)
    \/ Store(c)
    \/ Return(c)

Spec == Init /\ [][Next]_vars

\* -------------------------------------------- the calls, await by await
\* The handlers as programs: the statements of a handler in the order of the
\* code, each an instruction.  The registry of loaded drives, the timer's
\* clock and the checkouts the storage primitives are invoked on are followed
\* through every await.

\* operations that run inside auditLog.record and timer
TimedOps == {"writeFile", "rename", "copy"}
\* the privileged-only bulk operations (lines 559-631)
BeakerOnlyOps ==
  {"beakerDiff", "beakerMerge", "importFromFilesystem", "exportToFilesystem", "exportToDrive"}

\* drive.writable: k1 is a drive of the user, k2 a drive of somebody else
Writable == [k \in Keys |-> k = "k1"]

\* assertBeakerOnly that lets every sender through
assertBeakerOnly_Open(sender) == "ok"

\* assertBeakerOnly (lines 648-652)
assertBeakerOnly(sender) ==
  IF ~isSenderBeaker(sender) THEN "Permissions" ELSE "ok"

\* the statements of a handler before pause(), or, in the operations without
\* mediation, before the storage primitive
Prologue(op) ==
  CASE op = "writeFile" -> <<"recordTimer", "lookupDst", "historicDst">>
    [] op = "rename" -> <<"recordTimer", "lookupSrc", "lookupDstLive">>
    [] op = "copy" -> <<"lookupSrc", "readSize", "recordTimer", "lookupDstLive">>
    [] op = "beakerDiff" -> <<"beakerOnly", "urls", "lookupBoth">>
    [] op = "beakerMerge" ->
         <<"beakerOnly", "urls", "lookupBoth", "writableDst", "historicDst">>
    [] op = "importFromFilesystem" -> <<"beakerOnly", "lookupDstLive", "historicDst">>
    [] op = "exportToFilesystem" -> <<"beakerOnly", "lookupSrcLive">>
    [] op = "exportToDrive" ->
         <<"beakerOnly", "lookupSrcLive", "lookupDstLive", "historicDst">>

\* the checks between assertWritePermission and resume()
DestinationChecks(op) ==
  CASE op = "writeFile" -> <<"quota", "validFilePath", "unprotectedDst">>
    [] op = "rename" -> <<"validDst", "unprotectedSrc", "unprotectedDst">>
    [] op = "copy" -> <<"unprotectedDst", "quota">>
    [] OTHER -> <<>>

\* Mediation without pause()
Mediation_NoPause(op) ==
  IF op \in TimedOps
    THEN <<"perm">> \o DestinationChecks(op) \o <<"resume">>
    ELSE <<>>

\* the statements from pause() to resume()
Mediation(op) ==
  IF op \in TimedOps
    THEN <<"pause", "perm">> \o DestinationChecks(op) \o <<"resume">>
    ELSE <<>>

\* the statements after resume(): checkin(label) under the timer, then the
\* storage primitive
Epilogue(op) == IF op \in TimedOps THEN <<"checkin", "store">> ELSE <<"store">>

\* the handler: the last statement invokes the storage primitive
Program(op) == Prologue(op) \o Mediation(op) \o Epilogue(op)

\* the instructions that touch only the call's own variables
LocalInstructions ==
  {"recordTimer", "readSize", "historicDst", "writableDst", "beakerOnly", "urls",
   "pause", "resume", "checkin", "validFilePath", "validDst", "unprotectedSrc", "unprotectedDst"}
\* lookupDrive of one endpoint or, inside Promise.all, of both
LookupInstructions == {"lookupSrc", "lookupDst", "lookupSrcLive", "lookupDstLive", "lookupBoth"}

\* the requests: the operation, the drives of its URLs, the version the URL
\* of the call carries (rename, copy: the source URL), the paths, and whether
\* the source entry exists and the URL arguments are given
Requests ==
  [op : {"writeFile"}, src : {"none"}, dst : Keys, version : Versions,
   srcpath : {<<>>}, dstpath : RawPaths, bytes : {1}, found : {TRUE}, urls : {"given"}]
  \cup
  [op : {"rename"}, src : Keys, dst : Keys, version : Versions,
   srcpath : {<<"/", "notes.txt">>, <<"index%2Ejson">>}, dstpath : RawPaths,
   bytes : {0}, found : {TRUE}, urls : {"given"}]
  \cup
  [op : {"copy"}, src : Keys, dst : Keys, version : Versions,
   srcpath : {<<"/", "notes.txt">>}, dstpath : RawPaths,
   bytes : {1}, found : BOOLEAN, urls : {"given"}]
  \cup
  [op : {"beakerDiff", "beakerMerge"}, src : Keys, dst : Keys, version : {NoVersion},
   srcpath : {<<>>}, dstpath : {<<>>}, bytes : {0}, found : {TRUE},
   urls : {"given", "missing"}]
  \cup
  [op : {"importFromFilesystem"}, src : {"none"}, dst : Keys, version : {NoVersion},
   srcpath : {<<>>}, dstpath : {<<>>}, bytes : {0}, found : {TRUE}, urls : {"given"}]
  \cup
  [op : {"exportToFilesystem"}, src : Keys, dst : {"none"}, version : {NoVersion},
   srcpath : {<<>>}, dstpath : {<<>>}, bytes : {0}, found : {TRUE}, urls : {"given"}]
  \cup
  [op : {"exportToDrive"}, src : Keys, dst : Keys, version : {NoVersion},
   srcpath : {<<>>}, dstpath : {<<>>}, bytes : {0}, found : {TRUE}, urls : {"given"}]

\* A flow is a call followed instruction by instruction: ip is the
\* instruction it stands before, waitFor the drives whose load it awaits,
\* srcVersion and dstVersion the versions of the checkouts it resolved,
\* lookups the lookupDrive calls it made, askedWith the clock at the time of
\* its permission query, storedWith the clock at the time of its storage
\* primitive, timedOutAt the pc at which its timeout fired, reported the
\* error the timer has handed to the caller while the handler was suspended,
\* late what the handler did after that.
IdleFlow ==
  [pc |-> "idle", ip |-> 1, op |-> "none", sender |-> BeakerApp,
   src |-> "none", dst |-> "none", srcpath |-> <<>>, dstpath |-> <<>>,
   recorded |-> FALSE, clock |-> "off", waitFor |-> {},
   srcVersion |-> NoVersion, dstVersion |-> NoVersion, lookups |-> 0,
   queries |-> 0, prompts |-> 0, askedWith |-> "none", permitted |-> FALSE,
   passed |-> {}, stored |-> 0, storedWith |-> "none",
   result |-> "none", timedOutAt |-> "none", reported |-> "none", late |-> {}]

\* the flow throws err
Throw(f, err) == [f EXCEPT !.pc = "done", !.result = err, !.clock = "off", !.waitFor = {}]

\* the flow has executed the instruction it stood before
Proceed(f) == [f EXCEPT !.pc = "run", !.ip = @ + 1, !.waitFor = {}]

\* a check that throws its error or lets the flow go on
Checked(f, name, res) ==
  IF res = "ok" THEN Proceed([f EXCEPT !.passed = @ \cup {name}]) ELSE Throw(f, res)

\* one instruction that touches only the call's own variables
Local(f, ins) ==
  CASE ins = "beakerOnly" -> Checked(f, ins, assertBeakerOnly(f.sender))
    [] ins = "urls" ->
         IF request.urls = "missing" THEN Throw(f, "InvalidURL") ELSE Proceed(f)
    [] ins = "recordTimer" -> Proceed([f EXCEPT !.recorded = TRUE, !.clock = "running"])
    [] ins = "readSize" ->
         IF request.found THEN Proceed(f) ELSE Throw(f, "NotFound")
    [] ins = "historicDst" ->
         IF isHistoric(f.dstVersion) THEN Throw(f, "ArchiveNotWritable") ELSE Proceed(f)
    [] ins = "writableDst" ->
         IF ~Writable[f.dst] THEN Throw(f, "ArchiveNotWritable") ELSE Proceed(f)
    [] ins = "pause" -> Proceed([f EXCEPT !.clock = "paused"])
    [] ins = "resume" -> Proceed([f EXCEPT !.clock = "running"])
    [] ins = "checkin" -> Proceed(f)
    [] ins = "validFilePath" -> Checked(f, ins, assertValidFilePath(f.dstpath))
    [] ins = "validDst" -> Checked(f, ins, assertValidPath(f.dstpath))
    [] ins = "unprotectedSrc" ->
         Checked(f, ins, assertUnprotectedFilePath(f.srcpath, f.sender))
    [] ins = "unprotectedDst" ->
         Checked(f, ins, assertUnprotectedFilePath(f.dstpath, f.sender))

\* the flow runs on to the next instruction that touches shared state; a
\* checkin of a flow whose timer has fired is one (the timer's state)
RECURSIVE Advance(_)
Advance(f) ==
  IF f.pc # "run" THEN f
  ELSE IF Program(f.op)[f.ip] = "checkin" /\ f.reported # "none" THEN f
  ELSE IF Program(f.op)[f.ip] \in LocalInstructions
    THEN Advance(Local(f, Program(f.op)[f.ip]))
  ELSE f

\* the flow of slot c becomes f; auditLog.record appends its entry when a
\* flow that runs inside it ends, unless the timer has ended the call before
Commit(c, f) ==
  /\ flows' = [flows EXCEPT ![c] = f]
  /\ auditLog' = IF f.pc = "done" /\ f.recorded /\ f.reported = "none"
                   THEN Append(auditLog, AuditEntry(f, f.result))
                   ELSE auditLog

\* the drives and versions a lookup instruction hands to lookupDrive
LookupTargets(f, ins) ==
  CASE ins = "lookupSrc" -> <<[role |-> "src", key |-> f.src, version |-> request.version]>>
    [] ins = "lookupDst" -> <<[role |-> "dst", key |-> f.dst, version |-> request.version]>>
    [] ins = "lookupSrcLive" -> <<[role |-> "src", key |-> f.src, version |-> NoVersion]>>
    [] ins = "lookupDstLive" -> <<[role |-> "dst", key |-> f.dst, version |-> NoVersion]>>
    [] ins = "lookupBoth" -> <<[role |-> "src", key |-> f.src, version |-> NoVersion],
                               [role |-> "dst", key |-> f.dst, version |-> NoVersion]>>

\* lookupDrive that asks for a load whatever drives.getDrive returns
NeedsLoad_Always(reg, key) == TRUE

\* lookupDrive (783-784): "if (!drive) drive = await drives.loadDrive(driveKey)"
NeedsLoad(reg, key) == reg[key] # "loaded"

\* the storage engine starts a load when it neither holds the drive nor is
\* loading it: it deduplicates the loads by key
EngineStartsLoad(reg, key) == reg[key] = "absent"

\* the checkouts the storage primitive of the flow mutates
Mutations(f) ==
  CASE f.op = "writeFile" -> {[prim |-> f.op, key |-> f.dst, version |-> f.dstVersion]}
    [] f.op = "rename" -> {[prim |-> f.op, key |-> f.src, version |-> f.srcVersion],
                           [prim |-> f.op, key |-> f.dst, version |-> f.dstVersion]}
    [] f.op \in {"copy", "beakerMerge", "importFromFilesystem", "exportToDrive"} ->
         {[prim |-> f.op, key |-> f.dst, version |-> f.dstVersion]}
    [] OTHER -> {}

ResolverInit ==
  /\ request \in Requests
  /\ flows = [c \in Slots |-> IdleFlow]
  /\ registry = [k \in Keys |-> "absent"]
  /\ loadRequests = [k \in Keys |-> 0]
  /\ engineLoads = [k \in Keys |-> 0]
  /\ mutated = {}
  /\ grants = {}
  /\ size = [k \in Keys |-> DAT_QUOTA_DEFAULT_BYTES_ALLOWED - 1]
  /\ auditLog = <<>>
  /\ shape = Parked /\ calls = Parked /\ manifest = Parked /\ invocations = Parked
  /\ queryRun = Parked /\ infoRun = Parked /\ creations = Parked /\ visit = Parked

\* a page invokes the operation
Start(c, sender) ==
  /\ flows[c].pc = "idle"
  /\ Commit(c, Advance([IdleFlow EXCEPT
       !.pc = "run", !.op = request.op, !.sender = sender,
       !.src = request.src, !.dst = request.dst,
       !.srcpath = normalizeFilepath(request.srcpath),
       !.dstpath = normalizeFilepath(request.dstpath)]))
  /\ UNCHANGED <<request, registry, loadRequests, engineLoads, mutated, grants, size,
                 shape, calls, manifest, invocations, pureVars, creatorVars, pageVars>>

\* lookupDrive (782-787) up to its first await: drives.getDrive, and
\* drives.loadDrive when the drive is not there
Lookup(c) ==
  LET f == flows[c]
      ins == Program(f.op)[f.ip]
      targets == LookupTargets(f, ins)
      asked(k) == Cardinality({i \in 1..Len(targets) :
                                 targets[i].key = k /\ NeedsLoad(registry, k)})
      g == [f EXCEPT
              !.lookups = @ + Len(targets),
              !.srcVersion = IF \E i \in 1..Len(targets) : targets[i].role = "src"
                               THEN (CHOOSE t \in {targets[i] : i \in 1..Len(targets)} :
                                       t.role = "src").version
                               ELSE @,
              !.dstVersion = IF \E i \in 1..Len(targets) : targets[i].role = "dst"
                               THEN (CHOOSE t \in {targets[i] : i \in 1..Len(targets)} :
                                       t.role = "dst").version
                               ELSE @]
      waiting == {k \in Keys : asked(k) > 0 /\ registry[k] # "loaded"}
  IN /\ f.pc = "run"
     /\ ins \in LookupInstructions
     /\ loadRequests' = [k \in Keys |-> loadRequests[k] + asked(k)]
     /\ engineLoads' = [k \in Keys |->
          IF asked(k) > 0 /\ EngineStartsLoad(registry, k)
            THEN engineLoads[k] + 1 ELSE engineLoads[k]]
     /\ registry' = [k \in Keys |->
          IF asked(k) > 0 /\ EngineStartsLoad(registry, k) THEN "loading" ELSE registry[k]]
     /\ IF waiting = {}
          THEN Commit(c, Advance(Proceed(g)))
          ELSE Commit(c, [g EXCEPT !.pc = "loading", !.waitFor = waiting])
     /\ UNCHANGED <<request, mutated, grants, size,
                    shape, calls, manifest, invocations, pureVars, creatorVars, pageVars>>

\* the storage engine has loaded drive k
LoadCompletes(k) ==
  /\ registry[k] = "loading"
  /\ registry' = [registry EXCEPT ![k] = "loaded"]
  /\ UNCHANGED <<request, flows, loadRequests, engineLoads, mutated, grants, size,
                 auditLog, shape, calls, manifest, invocations, pureVars, creatorVars, pageVars>>

\* the loads the flow awaits are done: lookupDrive returns
LookupReturns(c) ==
  LET f == flows[c]
  IN /\ f.pc = "loading"
     /\ \A k \in f.waitFor : registry[k] = "loaded"
     /\ Commit(c, Advance(Proceed(f)))
     /\ UNCHANGED <<request, registry, loadRequests, engineLoads, mutated, grants, size,
                    shape, calls, manifest, invocations, pureVars, creatorVars, pageVars>>

\* assertWritePermission (667-688) on the destination drive
AskPermission(c) ==
  LET f == flows[c]
      asked == [f EXCEPT !.askedWith = f.clock]
  IN /\ f.pc = "run"
     /\ Program(f.op)[f.ip] = "perm"
     /\ IF WritePermissionBypass(f.sender, f.dst)
          THEN Commit(c, Advance(Proceed([f EXCEPT !.permitted = TRUE])))
        ELSE IF queryPermission(grants, f.sender, f.dst)
          THEN Commit(c, Advance(Proceed([asked EXCEPT !.queries = @ + 1,
                                                        !.permitted = TRUE])))
        ELSE Commit(c, [asked EXCEPT !.pc = "prompt", !.queries = @ + 1,
                                     !.prompts = @ + 1,
                                     !.late = IF f.reported # "none"
                                                THEN @ \cup {"prompt"} ELSE @])
     /\ UNCHANGED <<request, registry, loadRequests, engineLoads, mutated, grants, size,
                    shape, calls, manifest, invocations, pureVars, creatorVars, pageVars>>

\* the user answers the prompt (688-690)
UserDecides(c) ==
  LET f == flows[c]
  IN /\ f.pc = "prompt"
     /\ \E allowed \in BOOLEAN :
          IF allowed
            THEN /\ grants' = grants \cup {<<extractOrigin(f.sender), f.dst>>}
                 /\ Commit(c, Advance(Proceed([f EXCEPT !.permitted = TRUE])))
            ELSE /\ UNCHANGED grants
                 /\ Commit(c, Throw(f, "UserDenied"))
     /\ UNCHANGED <<request, registry, loadRequests, engineLoads, mutated, size,
                    shape, calls, manifest, invocations, pureVars, creatorVars, pageVars>>

\* assertQuotaPermission (709-726) on the destination drive
QuotaCheck(c) ==
  LET f == flows[c]
  IN /\ f.pc = "run"
     /\ Program(f.op)[f.ip] = "quota"
     /\ Commit(c, Advance(Checked(f, "quota",
          assertQuotaPermission(size[f.dst], extractOrigin(f.sender), request.bytes))))
     /\ UNCHANGED <<request, registry, loadRequests, engineLoads, mutated, grants, size,
                    shape, calls, manifest, invocations, pureVars, creatorVars, pageVars>>

\* the storage primitive is invoked and returns
StorePrimitive(c) ==
  LET f == flows[c]
  IN /\ f.pc = "run"
     /\ Program(f.op)[f.ip] = "store"
     /\ mutated' = mutated \cup Mutations(f)
     /\ size' = IF f.op \in {"writeFile", "copy"}
                  THEN [size EXCEPT ![f.dst] = @ + request.bytes] ELSE size
     /\ Commit(c, [f EXCEPT !.pc = "done", !.result = "ok", !.clock = "off",
                            !.stored = @ + 1, !.storedWith = f.clock,
                            !.late = IF f.reported # "none"
                                       THEN @ \cup {"store"} ELSE @])
     /\ UNCHANGED <<request, registry, loadRequests, engineLoads, grants,
                    shape, calls, manifest, invocations, pureVars, creatorVars, pageVars>>

\* the deadline of the timer elapses: the clock is running and the flow waits
\* for a drive load, for the permission store or for the user.  The timer
\* rejects the promise the caller awaits, auditLog.record writes its entry; the
\* handler is an async function suspended at an await, and it goes on when
\* what it awaits resolves
Timeout(c) ==
  LET f == flows[c]
  IN /\ f.clock = "running" /\ f.reported = "none"
     /\ \/ f.pc \in {"loading", "prompt"}
        \/ f.pc = "run" /\ Program(f.op)[f.ip] \in {"perm", "quota"}
     /\ flows' = [flows EXCEPT ![c] =
          [f EXCEPT !.reported = "Timeout", !.timedOutAt = f.pc]]
     /\ auditLog' = IF f.recorded THEN Append(auditLog, AuditEntry(f, "Timeout"))
                     ELSE auditLog
     /\ UNCHANGED <<request, registry, loadRequests, engineLoads, mutated, grants, size,
                    shape, calls, manifest, invocations, pureVars, creatorVars, pageVars>>

\* checkin(label) of a handler whose timer has fired: the timer either throws
\* out of the handler or only notes the label
Checkin(c) ==
  LET f == flows[c]
  IN /\ f.pc = "run"
     /\ Program(f.op)[f.ip] = "checkin" /\ f.reported # "none"
     /\ \E throws \in BOOLEAN :
          IF throws THEN Commit(c, Throw(f, "Timeout"))
          ELSE Commit(c, Advance(Proceed(f)))
     /\ UNCHANGED <<request, registry, loadRequests, engineLoads, mutated, grants, size,
                    shape, calls, manifest, invocations, pureVars, creatorVars, pageVars>>

ResolverNext ==
  \/ \E c \in Slots, sender \in Senders : Start(c, sender)
  \/ \E c \in Slots : Lookup(c)
  \/ \E k \in Keys : LoadCompletes(k)
  \/ \E c \in Slots : LookupReturns(c)
  \/ \E c \in Slots : AskPermission(c)
  \/ \E c \in Slots : UserDecides(c)
  \/ \E c \in Slots : QuotaCheck(c)
  \/ \E c \in Slots : StorePrimitive(c)
  \/ \E c \in Slots : Timeout(c)
  \/ \E c \in Slots : Checkin(c)

ResolverSpec == ResolverInit /\ [][ResolverNext]_vars

\* ------------------------------------------------- query over several drives
\* largest offset and limit of a query (0: the option is not given)
MaxOffset == 2
MaxLimit == 2

\* the entries a query can match: the path as its segments, stat.mtime and
\* stat.ctime
Entries ==
  { [path |-> <<"z", "a">>, mtime |-> 3, ctime |-> 1],
    [path |-> <<"a", "B">>, mtime |-> 1, ctime |-> 2],
    [path |-> <<"c">>, mtime |-> 2, ctime |-> 2],
    [path |-> <<"m", "D">>, mtime |-> 1, ctime |-> 3] }

\* path.basename(p): the final segment
basename(p) == p[Len(p)]

\* String.prototype.toLowerCase on a name
toLowerCase(name) ==
  CASE name = "B" -> "b"
    [] name = "D" -> "d"
    [] OTHER -> name

\* the place of a name in the collation order: letters in alphabetical order,
\* the small letter before the capital
CollationRank(name) ==
  CASE name = "a" -> 1 [] name = "b" -> 3 [] name = "B" -> 4
    [] name = "c" -> 5 [] name = "d" -> 7 [] name = "D" -> 8

\* x.localeCompare(y): negative, zero or positive
localeCompare(x, y) == CollationRank(x) - CollationRank(y)

\* the sort options of a query; "none" when opts.sort is not given
SortKeys == {"name", "mtime", "ctime"}

\* SortCompare that does not look at opts.reverse
SortCompare_NoReverse(sort, reverse, a, b) ==
  CASE sort = "name" ->
         localeCompare(toLowerCase(basename(a.path)), toLowerCase(basename(b.path)))
    [] sort = "mtime" -> a.mtime - b.mtime
    [] sort = "ctime" -> a.ctime - b.ctime
    [] OTHER -> 0

\* the comparator handed to results.sort (lines 533-539)
SortCompare(sort, reverse, a, b) ==
  CASE sort = "name" ->
         IF reverse
           THEN localeCompare(toLowerCase(basename(b.path)), toLowerCase(basename(a.path)))
           ELSE localeCompare(toLowerCase(basename(a.path)), toLowerCase(basename(b.path)))
    [] sort = "mtime" -> IF reverse THEN b.mtime - a.mtime ELSE a.mtime - b.mtime
    [] sort = "ctime" -> IF reverse THEN b.ctime - a.ctime ELSE a.ctime - b.ctime
    [] OTHER -> 0

\* Array.prototype.sort with the comparator of the query: a stable sort,
\* each element inserted behind the elements that do not come after it
RECURSIVE InsertSorted(_, _, _, _)
InsertSorted(x, sorted, sort, reverse) ==
  IF sorted = <<>> THEN <<x>>
  ELSE IF SortCompare(sort, reverse, x, Head(sorted)) < 0 THEN <<x>> \o sorted
  ELSE <<Head(sorted)>> \o InsertSorted(x, Tail(sorted), sort, reverse)

RECURSIVE ArraySort(_, _, _)
ArraySort(results, sort, reverse) ==
  IF results = <<>> THEN <<>>
  ELSE InsertSorted(results[Len(results)],
                    ArraySort(SubSeq(results, 1, Len(results) - 1), sort, reverse),
                    sort, reverse)

\* Array.prototype.slice(from, to), from and to counted from 0
ArraySlice(results, from, to) ==
  SubSeq(results, from + 1, IF to < Len(results) THEN to ELSE Len(results))

\* lines 540-542: the window of offset and limit (0: not given)
SliceWindow(results, offset, limit) ==
  IF offset # 0 /\ limit # 0 THEN ArraySlice(results, offset, offset + limit)
  ELSE IF offset # 0 THEN ArraySlice(results, offset, Len(results))
  ELSE IF limit # 0 THEN ArraySlice(results, 0, limit)
  ELSE results

\* the order of the per-drive query engine: by the key of opts.sort, ascending
\* or, with opts.reverse, descending
EngineBefore(sort, reverse, a, b) ==
  LET key(r) == CASE sort = "name" -> CollationRank(toLowerCase(basename(r.path)))
                  [] sort = "mtime" -> r.mtime
                  [] sort = "ctime" -> r.ctime
                  [] OTHER -> 0
  IN IF reverse THEN key(a) > key(b) ELSE key(a) < key(b)

RECURSIVE EngineInsert(_, _, _, _)
EngineInsert(x, sorted, sort, reverse) ==
  IF sorted = <<>> THEN <<x>>
  ELSE IF EngineBefore(sort, reverse, x, Head(sorted)) THEN <<x>> \o sorted
  ELSE <<Head(sorted)>> \o EngineInsert(x, Tail(sorted), sort, reverse)

RECURSIVE EngineSort(_, _, _)
EngineSort(matches, sort, reverse) ==
  IF matches = <<>> THEN <<>>
  ELSE EngineInsert(matches[Len(matches)],
                    EngineSort(SubSeq(matches, 1, Len(matches) - 1), sort, reverse),
                    sort, reverse)

\* query(drive, opts) of filesystem/query on one checkout: its matches
\* ordered and paginated according to the options it receives
driveQuery(matches, opts) ==
  LET ordered == EngineSort(matches, opts.sort, opts.reverse)
      from == opts.offset
      to == IF opts.limit # 0 THEN opts.offset + opts.limit ELSE Len(ordered)
  IN SubSeq(ordered, from + 1, IF to < Len(ordered) THEN to ELSE Len(ordered))

\* _flattenDeep of the per-drive results, in the order of opts.drive
RECURSIVE flattenDeep(_)
flattenDeep(queriesResults) ==
  IF queriesResults = <<>> THEN <<>>
  ELSE Head(queriesResults) \o flattenDeep(Tail(queriesResults))

\* query, lines 529-544: opts.drive holds the matches of each checkout
queryResults(opts) ==
  LET queriesResults == [i \in 1..Len(opts.drive) |-> driveQuery(opts.drive[i], opts)]
      results == flattenDeep(queriesResults)
  IN IF Len(opts.drive) > 1
       THEN SliceWindow(IF opts.sort \in SortKeys
                          THEN ArraySort(results, opts.sort, opts.reverse)
                          ELSE results,
                        opts.offset, opts.limit)
       ELSE results

\* the matches of a drive, in the order the drive lists them
RECURSIVE Listing(_)
Listing(entries) ==
  IF entries = {} THEN <<>>
  ELSE LET first == CHOOSE e \in entries :
                      \A f \in entries : CollationRank(basename(e.path)) <= CollationRank(basename(f.path))
       IN <<first>> \o Listing(entries \ {first})

\* the queries: one or two drives, each entry in at most one of them
QueryOptions ==
  { [drive |-> IF two THEN <<Listing({e \in Entries : where[e] = 1}),
                              Listing({e \in Entries : where[e] = 2})>>
               ELSE <<Listing({e \in Entries : where[e] = 1})>>,
     sort |-> sort, reverse |-> reverse, offset |-> offset, limit |-> limit] :
    two \in BOOLEAN, where \in [Entries -> 0..2],
    sort \in SortKeys \cup {"none"}, reverse \in BOOLEAN,
    offset \in 0..MaxOffset, limit \in 0..MaxLimit }

QueryInit ==
  /\ \E opts \in QueryOptions : queryRun = [pc |-> "call", opts |-> opts, results |-> <<>>]
  /\ shape = Parked /\ calls = Parked /\ grants = Parked /\ size = Parked
  /\ manifest = Parked /\ auditLog = Parked /\ invocations = Parked
  /\ request = Parked /\ flows = Parked /\ registry = Parked
  /\ loadRequests = Parked /\ engineLoads = Parked /\ mutated = Parked
  /\ infoRun = Parked /\ creations = Parked /\ visit = Parked

\* the query runs and returns its results
RunQuery ==
  /\ queryRun.pc = "call"
  /\ queryRun' = [queryRun EXCEPT !.pc = "done", !.results = queryResults(queryRun.opts)]
  /\ UNCHANGED <<shape, calls, grants, size, manifest, auditLog, invocations,
                 resolverVars, infoRun, creatorVars, pageVars>>

QueryNext == RunQuery

QuerySpec == QueryInit /\ [][QueryNext]_vars

\* ------------------------------------------------------------------ getInfo
\* the fields of the record drives.getDriveInfo gives: those getInfo copies
\* for userland (lines 145-156) and others of the record
UserlandFields == {"key", "url", "writable", "version", "peers", "title", "description"}
OtherFields == {"author", "size", "userSettings"}
InfoFields == UserlandFields \cup OtherFields

\* the values of a field: two of them are enough to tell records apart
FieldValues(f) ==
  CASE f = "key" -> {"k1", "k2"}
    [] f = "url" -> {"hyper://k1", "hyper://k2"}
    [] f = "writable" -> BOOLEAN
    [] f \in {"version", "peers", "size"} -> {1, 2}
    [] OTHER -> {"x", "y"}

BaseInfo == [f \in InfoFields |-> CHOOSE v \in FieldValues(f) : TRUE]

\* the drive records: the base record with at most two fields changed
DriveInfos ==
  { [f \in InfoFields |->
       IF f \in changed THEN CHOOSE v \in FieldValues(f) : v # BaseInfo[f]
       ELSE BaseInfo[f]] :
    changed \in {c \in SUBSET InfoFields : Cardinality(c) <= 2} }

\* getInfo that gives every sender the whole record
getInfo_WholeRecord(sender, info) == info

\* getInfo (lines 136-157) on the record drives.getDriveInfo(url) resolved to
getInfo(sender, info) ==
  IF isSenderBeaker(sender) THEN info
  ELSE [f \in UserlandFields |-> info[f]]

InfoInit ==
  /\ \E sender \in Senders, a \in DriveInfos, b \in DriveInfos :
       infoRun = [pc |-> "call", sender |-> sender, infos |-> <<a, b>>, results |-> <<>>]
  /\ shape = Parked /\ calls = Parked /\ grants = Parked /\ size = Parked
  /\ manifest = Parked /\ auditLog = Parked /\ invocations = Parked
  /\ request = Parked /\ flows = Parked /\ registry = Parked
  /\ loadRequests = Parked /\ engineLoads = Parked /\ mutated = Parked
  /\ queryRun = Parked /\ creations = Parked /\ visit = Parked

\* the sender calls getInfo on each of the two drives
RunGetInfo ==
  /\ infoRun.pc = "call"
  /\ infoRun' = [infoRun EXCEPT !.pc = "done",
                   !.results = <<getInfo(infoRun.sender, infoRun.infos[1]),
                                 getInfo(infoRun.sender, infoRun.infos[2])>>]
  /\ UNCHANGED <<shape, calls, grants, size, manifest, auditLog, invocations,
                 resolverVars, queryRun, creatorVars, pageVars>>

InfoNext == RunGetInfo

InfoSpec == InfoInit /\ [][InfoNext]_vars

\* ------------------------------------------------ creation and fork of drives
\* createDrive (31-75) and forkDrive (77-123): the modal or the permission
\* request, the creation, the grant to the creating page, and the write
\* mediation of a writeFile on the new drive afterwards.

\* the prompt option of the call: not given, true or false
PromptOptions == {"undefined", "true", "false"}

\* what modals.create gives: the URL of the drive made in the modal, an empty
\* result, an error named Error (the modal was closed), an error of another
\* name
ModalResults == {"url", "empty", "Error", "TypeError"}

\* forkDrive (81-83): the options of a sender that is not beaker are dropped,
\* prompt among them; createDrive (35-38) drops visibility and author only
EffectivePrompt(op, sender, prompt) ==
  IF op = "forkDrive" /\ ~isSenderBeaker(sender) THEN "undefined" ELSE prompt

\* "if (prompt !== false)" (40, 85): the modal is run
RunsModal(op, sender, prompt) == EffectivePrompt(op, sender, prompt) # "false"

\* what the handler makes of the modal's result (43-51, 89-97): it goes on
\* with res.url, throws UserDenied, or rethrows the error
AfterModal(res) ==
  CASE res = "url" -> "ok"
    [] res \in {"empty", "Error"} -> "UserDenied"
    [] OTHER -> res

\* assertCreateDrivePermission that asks nobody
assertCreateDrivePermission_Open(sender) == "ok"

\* assertCreateDrivePermission (654-665) up to the permission request: "ok"
\* when it returns at once, "ask" when the user is asked
assertCreateDrivePermission(sender) ==
  IF isSenderBeaker(sender) THEN "ok" ELSE "ask"

\* createDrive that grants nothing
GrantsCreator_Never(op, sender) == FALSE

\* createDrive (70-73) grants modifyDrive on the new drive to the creating
\* page; forkDrive (122) grants nothing
GrantsCreator(op, sender) == op = "createDrive" /\ ~isSenderBeaker(sender)

\* the URL of a drive: hyper://<key>/
DriveUrl(key) == [scheme |-> "hyper", rest |-> <<key, "/">>]

\* assertWritePermission (667-688) up to the prompt: "allowed" by a bypass,
\* "granted" by the permission store, or "prompt"
WriteMediation(store, sender, key) ==
  IF WritePermissionBypass(sender, key) THEN "allowed"
  ELSE IF queryPermission(store, sender, key) THEN "granted"
  ELSE "prompt"

\* A creation is a createDrive or forkDrive call: its arguments, the result
\* of its modal, the answer to its permission request, the drive made for it
\* and by whom (the modal or the gateway), its result, and the mediation of
\* the last writeFile on the drive it returned (outcome "none": no writeFile
\* yet).
IdleCreation ==
  [pc |-> "idle", op |-> "none", sender |-> BeakerApp, prompt |-> "undefined",
   modal |-> "none", asked |-> "none", made |-> "none", madeBy |-> "none",
   result |-> "none", wrote |-> [sender |-> BeakerApp, outcome |-> "none"]]

\* the keys no drive has yet
FreshKeys == Keys \ {creations[d].made : d \in Slots}

CreatorInit ==
  /\ creations = [c \in Slots |-> IdleCreation]
  /\ grants = {}
  /\ shape = Parked /\ calls = Parked /\ size = Parked /\ manifest = Parked
  /\ auditLog = Parked /\ invocations = Parked
  /\ request = Parked /\ flows = Parked /\ registry = Parked
  /\ loadRequests = Parked /\ engineLoads = Parked /\ mutated = Parked
  /\ queryRun = Parked /\ infoRun = Parked /\ visit = Parked

\* the call fails with err
Refused(c, call, err) ==
  /\ creations' = [creations EXCEPT ![c] = [call EXCEPT !.pc = "done", !.result = err]]
  /\ UNCHANGED grants

\* the end of the handler once the new drive has its URL (68-74, 122)
Created(c, call) ==
  LET newDriveKey == lookupUrlDriveKey(DriveUrl(call.made))
  IN /\ creations' = [creations EXCEPT ![c] = [call EXCEPT !.pc = "done", !.result = "ok"]]
     /\ grants' = IF GrantsCreator(call.op, call.sender)
                    THEN grants \cup {<<extractOrigin(call.sender), newDriveKey>>}
                    ELSE grants

\* a page calls createDrive or forkDrive (31-54, 77-100)
CallCreate(c, op, sender, prompt) ==
  LET call == [IdleCreation EXCEPT !.op = op, !.sender = sender, !.prompt = prompt]
  IN /\ creations[c].pc = "idle"
     /\ creations' = [creations EXCEPT ![c] =
          [call EXCEPT !.pc =
             IF RunsModal(op, sender, prompt) THEN "modal"
             ELSE IF assertCreateDrivePermission(sender) = "ok" THEN "create"
             ELSE "request"]]
     /\ UNCHANGED <<shape, calls, grants, size, manifest, auditLog, invocations,
                    resolverVars, pureVars, pageVars>>

\* the modal ends (44-51, 90-97)
ModalEnds(c) ==
  LET call == creations[c]
  IN /\ call.pc = "modal"
     /\ \E res \in ModalResults :
          LET seen == [call EXCEPT !.modal = res]
          IN IF AfterModal(res) = "ok"
               THEN \E k \in FreshKeys :
                      Created(c, [seen EXCEPT !.made = k, !.madeBy = "modal"])
               ELSE Refused(c, seen, AfterModal(res))
     /\ UNCHANGED <<shape, calls, size, manifest, auditLog, invocations,
                    resolverVars, pureVars, pageVars>>

\* the user answers permissions.requestPermission('createDrive') (661-664)
CreateRequestAnswered(c) ==
  LET call == creations[c]
  IN /\ call.pc = "request"
     /\ \E allowed \in BOOLEAN :
          IF allowed
            THEN /\ creations' = [creations EXCEPT ![c] =
                      [call EXCEPT !.pc = "create", !.asked = "allowed"]]
                 /\ UNCHANGED grants
            ELSE Refused(c, [call EXCEPT !.asked = "refused"], "UserDenied")
     /\ UNCHANGED <<shape, calls, size, manifest, auditLog, invocations,
                    resolverVars, pureVars, pageVars>>

\* drives.createNewDrive (60-61) or drives.forkDrive (102-118) makes the
\* drive, or throws
MakeDrive(c) ==
  LET call == creations[c]
  IN /\ call.pc = "create"
     /\ \E made \in BOOLEAN :
          IF made
            THEN \E k \in FreshKeys :
                   Created(c, [call EXCEPT !.made = k, !.madeBy = "gateway"])
            ELSE Refused(c, call, "Error")
     /\ UNCHANGED <<shape, calls, size, manifest, auditLog, invocations,
                    resolverVars, pureVars, pageVars>>

\* a page calls writeFile on the drive the call returned: the mediation of
\* assertWritePermission
WriteNewDrive(c, sender) ==
  LET call == creations[c]
  IN /\ call.pc = "done" /\ call.result = "ok"
     /\ creations' = [creations EXCEPT ![c] = [call EXCEPT !.wrote =
          [sender |-> sender, outcome |-> WriteMediation(grants, sender, call.made)]]]
     /\ UNCHANGED <<shape, calls, grants, size, manifest, auditLog, invocations,
                    resolverVars, pureVars, pageVars>>

CreatorNext ==
  \E c \in Slots :
    \/ \E op \in {"createDrive", "forkDrive"}, sender \in Senders, prompt \in PromptOptions :
         CallCreate(c, op, sender, prompt)
    \/ ModalEnds(c)
    \/ CreateRequestAnswered(c)
    \/ MakeDrive(c)
    \/ \E sender \in Senders : WriteNewDrive(c, sender)

CreatorSpec == CreatorInit /\ [][CreatorNext]_vars

\* ------------------------------------------------- the page that navigates
\* this.sender is the page (the web contents) the call came from, and
\* sender.getURL() is the URL the page shows when it is asked: the page can
\* have gone to another URL while the call was suspended.  One writeFile
\* (245-268) on the live checkout is followed, each sender.getURL() reading
\* the URL of that moment.

\* A visit is the call: url is what sender.getURL() returns now, caller what
\* it returned for auditLog.record (250), senderOrigin the origin taken at
\* 257, used the decisions taken so far (privileged: 673, selfOrigin: 678-679,
\* quota: 711, protectedPath: 639), each with the URL it was taken for and
\* whether it let the call through as a privileged one.
IdleVisit ==
  [pc |-> "idle", url |-> BeakerApp, caller |-> BeakerApp, key |-> "none",
   path |-> <<>>, bytes |-> 0, senderOrigin |-> extractOrigin(BeakerApp),
   used |-> {}, prompts |-> 0, stored |-> 0, result |-> "none"]

\* a decision taken for the URL the page shows
Decided(v, name, bypass) ==
  [v EXCEPT !.used = @ \cup {[decision |-> name, url |-> v.url, bypass |-> bypass]}]

\* the quota decision is taken for the URL senderOrigin was taken from
DecidedQuota(v, url) ==
  [v EXCEPT !.used = @ \cup
     {[decision |-> "quota", url |-> url,
       bypass |-> OriginStartsWithBeaker(v.senderOrigin)]}]

\* the call throws err
Thrown(v, err) == [v EXCEPT !.pc = "done", !.result = err]

\* writeFile from assertQuotaPermission to the storage primitive (259-265);
\* originUrl is the URL senderOrigin was taken from
AfterPermission(v, originUrl, metaSize) ==
  LET q == DecidedQuota(v, originUrl)
      p == Decided(q, "protectedPath", isSenderBeaker(v.url))
  IN IF assertQuotaPermission(metaSize, v.senderOrigin, v.bytes) # "ok"
       THEN Thrown(q, "QuotaExceeded")
     ELSE IF assertValidFilePath(v.path) # "ok" THEN Thrown(q, "InvalidPath")
     ELSE IF assertUnprotectedFilePath(v.path, v.url) # "ok"
       THEN Thrown(p, "ProtectedFileNotWritable")
     ELSE [p EXCEPT !.pc = "done", !.result = "ok", !.stored = @ + 1]

PageInit ==
  /\ visit = IdleVisit
  /\ grants = {}
  /\ size = [k \in Keys |-> DAT_QUOTA_DEFAULT_BYTES_ALLOWED - 1]
  /\ shape = Parked /\ calls = Parked /\ manifest = Parked
  /\ auditLog = Parked /\ invocations = Parked
  /\ request = Parked /\ flows = Parked /\ registry = Parked
  /\ loadRequests = Parked /\ engineLoads = Parked /\ mutated = Parked
  /\ queryRun = Parked /\ infoRun = Parked /\ creations = Parked

\* the page calls writeFile: auditLog.record is given sender.getURL() (250),
\* and the handler waits for lookupDrive (253)
PageCalls(sender, key, path, bytes) ==
  /\ visit.pc = "idle"
  /\ visit' = [IdleVisit EXCEPT !.pc = "loading", !.url = sender, !.caller = sender,
                                !.key = key, !.path = normalizeFilepath(path),
                                !.bytes = bytes]
  /\ UNCHANGED <<shape, calls, grants, size, manifest, auditLog, invocations,
                 resolverVars, pureVars, creatorVars>>

\* the page goes to another URL while its call waits for the drive or for
\* the user
Navigate(url) ==
  /\ visit.pc \in {"loading", "prompt"}
  /\ url # visit.url
  /\ visit' = [visit EXCEPT !.url = url]
  /\ UNCHANGED <<shape, calls, grants, size, manifest, auditLog, invocations,
                 resolverVars, pureVars, creatorVars>>

\* lookupDrive returns: pause(), senderOrigin (257), assertWritePermission
\* (258, 667-688) and, unless the user is asked, the rest of the handler
DriveLoaded ==
  LET v == [visit EXCEPT !.senderOrigin = extractOrigin(visit.url)]
      privileged == Decided(v, "privileged", isSenderBeaker(v.url))
      own == Decided(privileged, "selfOrigin", FALSE)
  IN /\ visit.pc = "loading"
     /\ visit' =
          IF isSenderBeaker(v.url) THEN AfterPermission(privileged, v.url, size[v.key])
          ELSE IF lookupUrlDriveKey(v.url) = v.key
            THEN AfterPermission(own, v.url, size[v.key])
          ELSE IF queryPermission(grants, v.url, v.key)
            THEN AfterPermission(own, v.url, size[v.key])
          ELSE [own EXCEPT !.pc = "prompt", !.prompts = @ + 1]
     /\ size' = IF visit'.stored > 0 THEN [size EXCEPT ![v.key] = @ + v.bytes] ELSE size
     /\ UNCHANGED <<shape, calls, grants, manifest, auditLog, invocations,
                    resolverVars, pureVars, creatorVars>>

\* the user answers the prompt (688-690), and the handler goes on; the URL
\* senderOrigin was taken from is the one the privileged decision was taken
\* for, a moment before
PromptAnswered ==
  LET originUrl == (CHOOSE d \in visit.used : d.decision = "privileged").url
  IN /\ visit.pc = "prompt"
     /\ \E allowed \in BOOLEAN :
          IF allowed
            THEN /\ grants' = grants \cup {<<extractOrigin(visit.url), visit.key>>}
                 /\ visit' = AfterPermission(visit, originUrl, size[visit.key])
            ELSE /\ UNCHANGED grants
                 /\ visit' = Thrown(visit, "UserDenied")
     /\ size' = IF visit'.stored > 0
                  THEN [size EXCEPT ![visit.key] = @ + visit.bytes] ELSE size
     /\ UNCHANGED <<shape, calls, manifest, auditLog, invocations,
                    resolverVars, pureVars, creatorVars>>

PageNext ==
  \/ \E sender \in Senders, key \in Keys, path \in RawPaths, bytes \in 1..MaxBytes :
       PageCalls(sender, key, path, bytes)
  \/ \E url \in Senders : Navigate(url)
  \/ DriveLoaded
  \/ PromptAnswered

PageSpec == PageInit /\ [][PageNext]_vars

\* ------------------------------------------------------------ the claims
C2_ManifestPath == <<"/", DRIVE_MANIFEST_FILENAME>>
C1_WebOrigin == extractOrigin(WebPage)

\* C1: writeFile, mkdir, symlink and mount on a URL with a version fail with
\* ArchiveNotWritable for every sender and every content of the permission
\* store, and the call has then issued no permission query, no prompt and no
\* storage primitive.
C1_HistoricIsNotWritable ==
  \A c \in Slots :
    LET call == calls[c]
    IN (call.op \in {"writeFile", "mkdir", "symlink", "mount"} /\ isHistoric(call.version))
       => /\ call.pc = "done"
          /\ call.result = "ArchiveNotWritable"
          /\ call.queries = 0 /\ call.prompts = 0 /\ call.stored = 0

\* a page that holds a grant for the drive has its historic writeFile refused
C1_Witness ==
  \E c \in Slots :
    /\ calls[c].op = "writeFile" /\ isHistoric(calls[c].version)
    /\ calls[c].sender = WebPage /\ <<C1_WebOrigin, calls[c].key>> \in grants
    /\ calls[c].result = "ArchiveNotWritable"

\* the calls C2 is about: writeFile, unlink, mkdir of a non-privileged sender
\* on the manifest path of the live checkout
C2_Case(call) ==
  /\ call.op \in {"writeFile", "unlink", "mkdir"}
  /\ ~isSenderBeaker(call.sender)
  /\ ~isHistoric(call.version)
  /\ call.path = C2_ManifestPath

\* C2 as claimed: such a call fails with ProtectedFileNotWritable whatever the
\* grants, the user's answer and the quota state, and never reaches the
\* storage primitive.
C2_AsClaimed ==
  \A c \in Slots :
    C2_Case(calls[c])
    => /\ calls[c].pc # "store" /\ calls[c].stored = 0
       /\ calls[c].pc = "done" => calls[c].result = "ProtectedFileNotWritable"

\* C2 amended: such a call never reaches the storage primitive and fails: with
\* UserDenied when the user denies its prompt, with QuotaExceeded when it is a
\* writeFile whose quota check fails, and with ProtectedFileNotWritable
\* otherwise.
C2_ManifestIsProtected ==
  \A c \in Slots :
    LET call == calls[c]
    IN C2_Case(call)
       => /\ call.pc # "store" /\ call.stored = 0
          /\ call.pc = "done" =>
               call.result =
                 IF call.answer = "deny" THEN "UserDenied"
                 ELSE IF call.op = "writeFile"
                         /\ call.metaSize + call.bytes > DAT_QUOTA_DEFAULT_BYTES_ALLOWED
                   THEN "QuotaExceeded"
                 ELSE "ProtectedFileNotWritable"

\* the user allowed the write, the quota allows it, and it is refused
C2_Witness ==
  \E c \in Slots :
    /\ C2_Case(calls[c]) /\ calls[c].op = "writeFile"
    /\ calls[c].answer = "allow"
    /\ calls[c].result = "ProtectedFileNotWritable"

\* C3: a writeFile on the live checkout by a non-privileged sender that is not
\* the drive's own page and has no grant issues one permission query and one
\* prompt, with its clock paused while the prompt is open; when the user
\* denies, it fails with UserDenied without a storage write and with exactly
\* one audit entry, a writeFile failure.
C3_DeniedWrite ==
  \A c \in Slots :
    LET call == calls[c]
    IN (/\ call.op = "writeFile" /\ ~isHistoric(call.version)
        /\ ~isSenderBeaker(call.sender)
        /\ lookupUrlDriveKey(call.sender) # call.key
        /\ ~call.sawGrant)
       => /\ call.queries = 1 /\ call.prompts = 1
          /\ call.pc = "prompt" => call.clock = "paused" /\ call.logged = <<>>
          /\ call.answer = "deny" =>
               /\ call.pc = "done" /\ call.result = "UserDenied"
               /\ call.stored = 0
               /\ call.logged = <<[action |-> "writeFile", outcome |-> "failure"]>>

\* the page of another drive was denied
C3_Witness ==
  \E c \in Slots :
    /\ calls[c].op = "writeFile" /\ calls[c].sender = DrivePage
    /\ calls[c].answer = "deny" /\ calls[c].result = "UserDenied"
    /\ Len(auditLog) >= 1

\* C4: a write-class call of a sender whose URL resolves to the key of the
\* target drive passes assertWritePermission without a permission query and
\* without a prompt, whatever the permission store holds.
C4_SelfOrigin ==
  \A c \in Slots :
    LET call == calls[c]
    IN (/\ call.op \in WriteOps
        /\ lookupUrlDriveKey(call.sender) = call.key
        /\ BeforePause(call.op, call.version, call.settings) = "pause")
       => /\ call.queries = 0 /\ call.prompts = 0
          /\ call.pc \in {"checks", "store", "done"}
          /\ call.result # "UserDenied"

\* the drive's own page, without any grant, is at the storage primitive
C4_Witness ==
  \E c \in Slots :
    /\ calls[c].sender = DrivePage /\ calls[c].key = "k1"
    /\ calls[c].pc = "store" /\ grants = {}

\* the store st holds the grant of the sender of call for its drive
C5_HoldsGrant(st, call) == <<extractOrigin(call.sender), call.key>> \in st

\* C5: a write-class call that reaches assertWritePermission (its drive is
\* resolved and live, its arguments are accepted) when the store
\* holds the grant of its sender for its drive passes without a prompt, and a
\* step that issues a prompt is taken only when the store holds no such grant;
\* a grant in the store stays there.
C5_GrantShortCircuits ==
  [][\A c \in Slots :
       LET call == calls'[c]
           starts == /\ calls[c].pc = "idle" /\ call.pc # "idle"
                     /\ call.op \in WriteOps /\ call.recorded
                     /\ BeforePause(call.op, call.version, call.settings) = "pause"
       IN /\ (starts /\ C5_HoldsGrant(grants, call))
               => call.pc = "checks" /\ call.prompts = 0
          /\ call.prompts > calls[c].prompts => ~C5_HoldsGrant(grants, call)
          /\ grants \subseteq grants']_vars

\* a call was approved by the user, and a later call of the same page found
\* the grant and went on to the storage primitive without a prompt
C5_Witness ==
  \E c, d \in Slots :
    /\ c # d
    /\ calls[c].answer = "allow" /\ calls[c].sender = calls[d].sender
    /\ calls[d].sawGrant /\ calls[d].prompts = 0
    /\ calls[d].pc \in {"store", "done"} /\ calls[d].result \in {"none", "ok"}

\* C6 as claimed: configure(url, {title}) on the live checkout by a sender
\* that passes isSenderBeaker applies the manifest update, issues no prompt
\* and records one audit entry, a success.
C6_AsClaimed ==
  \A c \in Slots :
    LET call == calls[c]
    IN (/\ call.op = "configure" /\ call.settings = "title"
        /\ ~isHistoric(call.version) /\ isSenderBeaker(call.sender))
       => /\ call.prompts = 0 /\ call.queries = 0
          /\ call.pc = "done" =>
               /\ call.result = "ok" /\ call.stored = 1
               /\ manifest[call.key] = "x"
               /\ call.logged = <<[action |-> "configure", outcome |-> "success"]>>

\* C7: the quota check of a non-privileged sender that reads size S for a
\* write of B bytes throws QuotaExceeded when S + B exceeds the allowance and
\* passes when S + B is at most the allowance; a writeFile that is at the
\* storage primitive has passed it.
C7_QuotaBoundary ==
  \A c \in Slots :
    LET call == calls[c]
        over == call.metaSize + call.bytes > DAT_QUOTA_DEFAULT_BYTES_ALLOWED
    IN ~isSenderBeaker(call.sender)
       => /\ call.metaSize # -1 =>
               /\ over => call.pc = "done" /\ call.result = "QuotaExceeded"
               /\ ~over => call.result # "QuotaExceeded"
          /\ call.result = "QuotaExceeded" => call.metaSize # -1 /\ over
          /\ (call.op = "writeFile" /\ call.pc = "store") => call.metaSize # -1 /\ ~over

\* a write that fills the allowance exactly is at the storage primitive
C7_Witness ==
  \E c \in Slots :
    /\ ~isSenderBeaker(calls[c].sender) /\ calls[c].op = "writeFile"
    /\ calls[c].metaSize + calls[c].bytes = DAT_QUOTA_DEFAULT_BYTES_ALLOWED
    /\ calls[c].metaSize > 0
    /\ calls[c].pc = "store"

\* C8 as claimed: when every call so far is a writeFile of a non-privileged
\* sender, the size of no drive exceeds the allowance.
C8_AsClaimed ==
  (/\ shape.op = "writeFile"
   /\ invocations = Cardinality({c \in Slots : calls[c].pc # "idle"})
   /\ \A c \in Slots : calls[c].pc # "idle" => ~isSenderBeaker(calls[c].sender))
  => \A k \in Keys : size[k] <= DAT_QUOTA_DEFAULT_BYTES_ALLOWED

\* C9 as claimed: a writeFile, copy or configure of a sender that passes
\* isSenderBeaker never fails with QuotaExceeded.
C9_AsClaimed ==
  \A c \in Slots :
    (isSenderBeaker(calls[c].sender) /\ calls[c].op \in {"writeFile", "copy", "configure"})
    => calls[c].result # "QuotaExceeded"

\* C10 as claimed: when no call is in flight, the audit log holds as many
\* entries as operations were invoked.
C10_AsClaimed ==
  (\A c \in Slots : calls[c].pc \in {"idle", "done"})
  => Len(auditLog) = invocations

\* all matches of the drives of a query, ordered by the key of the query
C11_GlobalOrder(opts) ==
  EngineSort(flattenDeep(opts.drive), opts.sort, opts.reverse)

\* C11 as claimed: a query over two or more drives with sort=name, an offset
\* and a limit returns the slice [offset, offset+limit) of all drives' matches
\* ordered by name.
C11_AsClaimed ==
  LET opts == queryRun.opts
  IN (/\ queryRun.pc = "done"
      /\ Len(opts.drive) > 1 /\ opts.sort = "name"
      /\ opts.offset # 0 /\ opts.limit # 0)
     => queryRun.results
          = ArraySlice(C11_GlobalOrder(opts), opts.offset, opts.offset + opts.limit)

\* the key a query sorts by, as a number
C12_Key(sort, r) ==
  CASE sort = "name" -> CollationRank(toLowerCase(basename(r.path)))
    [] sort = "mtime" -> r.mtime
    [] sort = "ctime" -> r.ctime

\* C12: the results of a query over two or more drives with sort in {name,
\* mtime, ctime} are in the order of that key (the name without regard to
\* case, on the final path segment), ascending without reverse and descending
\* with it, and each of them is a result of one of the per-drive queries.
C12_MergedOrder ==
  LET opts == queryRun.opts
      res == queryRun.results
  IN (/\ queryRun.pc = "done"
      /\ Len(opts.drive) > 1 /\ opts.sort \in SortKeys)
     => /\ \A i, j \in 1..Len(res) :
             i < j => IF opts.reverse
                        THEN C12_Key(opts.sort, res[i]) >= C12_Key(opts.sort, res[j])
                        ELSE C12_Key(opts.sort, res[i]) <= C12_Key(opts.sort, res[j])
        /\ \A i \in 1..Len(res) :
             \E d \in 1..Len(opts.drive) :
               \E k \in 1..Len(driveQuery(opts.drive[d], opts)) :
                 driveQuery(opts.drive[d], opts)[k] = res[i]

\* a query by name in descending order returned entries of both drives, a
\* capital letter among them
C12_Witness ==
  /\ queryRun.pc = "done"
  /\ Len(queryRun.opts.drive) > 1
  /\ queryRun.opts.sort = "name" /\ queryRun.opts.reverse
  /\ Len(queryRun.results) >= 3
  /\ \E i \in 1..Len(queryRun.results) : basename(queryRun.results[i].path) = "B"
  /\ \A d \in 1..2 : \E i \in 1..Len(queryRun.results), k \in 1..Len(queryRun.opts.drive[d]) :
       queryRun.opts.drive[d][k] = queryRun.results[i]

\* the seven fields C15 names
C15_Seven == {"key", "url", "writable", "version", "peers", "title", "description"}

\* C15: what getInfo returns to a non-privileged sender holds the seven
\* fields key, url, writable, version, peers, title, description of the drive
\* record and nothing else, so two records that agree on the seven yield the
\* same result; a privileged sender receives the whole record.
C15_ReducedInfo ==
  LET a == infoRun.infos[1]
      b == infoRun.infos[2]
  IN infoRun.pc = "done"
     => IF isSenderBeaker(infoRun.sender)
          THEN infoRun.results = <<a, b>>
          ELSE /\ DOMAIN infoRun.results[1] = C15_Seven
               /\ \A f \in C15_Seven : infoRun.results[1][f] = a[f]
               /\ (\A f \in C15_Seven : a[f] = b[f])
                    => infoRun.results[1] = infoRun.results[2]

\* a web page asked for two records that differ in another field only
C15_Witness ==
  /\ infoRun.pc = "done" /\ infoRun.sender = WebPage
  /\ \A f \in C15_Seven : infoRun.infos[1][f] = infoRun.infos[2][f]
  /\ infoRun.infos[1]["author"] # infoRun.infos[2]["author"]
  /\ infoRun.results[1] = infoRun.results[2]

\* C13: in the operations that run under the timer, the permission store is
\* asked and the prompt is shown with the clock paused, the clock stays paused
\* while the prompt is open, no timeout fires at the prompt, and the storage
\* primitive is invoked with the clock running again.
C13_PausedWhileAsking ==
  \A c \in Slots :
    LET f == flows[c]
    IN f.op \in TimedOps
       => /\ f.askedWith \in {"none", "paused"}
          /\ f.pc = "prompt" => f.clock = "paused"
          /\ f.timedOutAt # "prompt"
          /\ f.stored > 0 => f.storedWith = "running"

\* a rename waited for the user and then invoked the storage primitive
C13_Witness ==
  \E c \in Slots :
    /\ flows[c].op = "rename" /\ flows[c].prompts = 1
    /\ flows[c].askedWith = "paused"
    /\ flows[c].stored = 1 /\ flows[c].storedWith = "running"

\* C14: a privileged-only bulk operation invoked by a sender that does not
\* pass isSenderBeaker fails with Permissions, whatever its arguments, and it
\* has then made no lookupDrive call and invoked no storage primitive.
C14_BeakerOnly ==
  \A c \in Slots :
    LET f == flows[c]
    IN (f.op \in BeakerOnlyOps /\ ~isSenderBeaker(f.sender))
       => /\ f.pc = "done" /\ f.result = "Permissions"
          /\ f.lookups = 0 /\ f.stored = 0

\* a web page called beakerMerge without its URL arguments
C14_Witness ==
  \E c \in Slots :
    /\ flows[c].op = "beakerMerge" /\ flows[c].sender = WebPage
    /\ request.urls = "missing"
    /\ flows[c].result = "Permissions"

\* C16 as claimed: a copy or rename that has invoked its storage primitive
\* has resolved both drives, holds the write permission, and its destination
\* path is valid and not protected; a copy or rename whose destination check
\* fails invokes no storage primitive.
C16_AsClaimed ==
  \A c \in Slots :
    LET f == flows[c]
        legal == /\ assertValidPath(f.dstpath) = "ok"
                 /\ assertUnprotectedFilePath(f.dstpath, f.sender) = "ok"
    IN f.op \in {"copy", "rename"}
       => /\ f.stored > 0 => f.lookups = 2 /\ f.permitted /\ legal
          /\ (~legal \/ f.result = "UserDenied") => f.stored = 0

\* C17 as claimed: no mutating storage primitive is invoked on a historic
\* checkout.
C17_AsClaimed ==
  \A m \in mutated : ~isHistoric(m.version)

\* C18 as claimed: the gateway calls drives.loadDrive at most once for a
\* drive.
C18_AsClaimed ==
  \A k \in Keys : loadRequests[k] <= 1

\* C18 amended: the storage engine starts at most one load of a drive, the
\* gateway calling drives.loadDrive in every lookupDrive that finds no loaded
\* drive; a lookupDrive that starts when the drive is loaded calls no load.
C18_LoadedOnce ==
  [][\A k \in Keys :
       /\ engineLoads'[k] <= 1
       /\ registry[k] = "loaded"
            => loadRequests'[k] = loadRequests[k] /\ engineLoads'[k] = engineLoads[k]]_vars

\* two calls asked for the load of one drive, which was loaded once, and both
\* went on
C18_Witness ==
  \E k \in Keys :
    /\ loadRequests[k] = 2 /\ engineLoads[k] = 1 /\ registry[k] = "loaded"
    /\ \A c \in Slots : flows[c].pc = "done" /\ flows[c].lookups > 0

\* C19 as claimed: an operation with a timeout waits for a drive load with
\* the clock of its timer running.
C19_AsClaimed ==
  \A c \in Slots :
    (flows[c].op \in TimedOps /\ flows[c].pc = "loading")
    => flows[c].clock = "running"

\* C20 as claimed: a beakerMerge or rename whose destination drive is not
\* writable invokes no storage primitive.
C20_AsClaimed ==
  \A c \in Slots :
    (flows[c].op \in {"beakerMerge", "rename"} /\ ~Writable[flows[c].dst])
    => flows[c].stored = 0

\* the errors of the permission, quota and path checks
C21_CheckErrors ==
  {"UserDenied", "QuotaExceeded", "InvalidPath", "ProtectedFileNotWritable",
   "ArchiveNotWritable"}

C21_Failed(call) == call.pc = "done" /\ call.result \in C21_CheckErrors

\* C21: a call of a mutating operation that ends with UserDenied,
\* QuotaExceeded, InvalidPath, ProtectedFileNotWritable or ArchiveNotWritable
\* has invoked no storage primitive, and it takes no further step but the
\* delivery of its result: it invokes none later; a call that has invoked its
\* storage primitive was not refused and passes every check of its operation.
C21_ChecksBeforeStore ==
  [][\A c \in Slots :
       /\ C21_Failed(calls[c])
            => /\ calls[c].stored = 0
               /\ calls'[c] \in {calls[c], Idle}
       /\ C21_Failed(calls'[c]) => calls'[c].stored = 0
       /\ calls'[c].stored > 0
            => /\ BeforePause(calls'[c].op, calls'[c].version, calls'[c].settings) = "pause"
               /\ calls'[c].answer # "deny"
               /\ FirstFailure(PostChecks(calls'[c].op), calls'[c],
                                IF calls'[c].metaSize = -1 THEN 0 ELSE calls'[c].metaSize) = "ok"
    ]_vars

\* a configure was refused by the quota check, and the manifest of its drive
\* is the one of the start
C21_Witness ==
  \E c \in Slots :
    /\ C21_Failed(calls[c]) /\ calls[c].stored = 0
    /\ calls[c].result = "QuotaExceeded" /\ calls[c].op = "configure"
    /\ manifest[calls[c].key] = "untitled"

\* C22 as claimed: a call whose timer has reported Timeout to the caller
\* before the storage primitive was invoked shows no consent prompt and
\* invokes no storage primitive afterwards.
C22_AsClaimed ==
  \A c \in Slots :
    flows[c].reported = "Timeout" => flows[c].late = {}

\* C23: a drive made for a createDrive or forkDrive of a sender that is not
\* beaker was agreed to by the user (the modal returned its URL, or the
\* createDrive permission request was allowed); a modal that gives an empty
\* result or a generic Error, and a refused permission request, end the call
\* with UserDenied and without a drive; a forkDrive of such a sender shows the
\* modal whatever its prompt option, and asks for no permission instead.
C23_ConsentBeforeCreation ==
  \A c \in Slots :
    LET call == creations[c]
    IN (call.pc # "idle" /\ ~isSenderBeaker(call.sender))
       => /\ call.made # "none" => (call.modal = "url" \/ call.asked = "allowed")
          /\ (call.modal \in {"empty", "Error"} \/ call.asked = "refused")
               => /\ call.pc = "done" /\ call.result = "UserDenied"
                  /\ call.made = "none"
          /\ call.op = "forkDrive"
               => /\ call.asked = "none" /\ call.madeBy # "gateway"
                  /\ call.pc = "modal" \/ call.modal # "none"

\* a web page called forkDrive with prompt false and closed the modal, and
\* another called createDrive with prompt false and was refused
C23_Witness ==
  \E c, d \in Slots :
    /\ creations[c].sender = WebPage /\ creations[c].op = "forkDrive"
    /\ creations[c].prompt = "false" /\ creations[c].modal = "Error"
    /\ creations[c].result = "UserDenied"
    /\ creations[d].sender = DrivePage /\ creations[d].op = "createDrive"
    /\ creations[d].asked = "refused" /\ creations[d].result = "UserDenied"

\* the grants createDrive has made: one for each createDrive that returned a
\* drive to a sender that is not beaker
C25_Due ==
  {<<extractOrigin(creations[c].sender), creations[c].made>> :
     c \in {d \in Slots : /\ creations[d].pc = "done" /\ creations[d].result = "ok"
                          /\ creations[d].op = "createDrive"
                          /\ ~isSenderBeaker(creations[d].sender)}}

\* C25: when createDrive has returned a drive to a sender that is not beaker,
\* the permission store holds modifyDrive on the new drive for the sender's
\* origin, and a writeFile of that sender on the drive is let through without
\* a prompt; the store holds no other grant: none for a createDrive that
\* failed, none for a beaker sender.
C25_CreatorMayWrite ==
  /\ grants = C25_Due
  /\ \A c \in Slots :
       LET call == creations[c]
       IN (/\ call.pc = "done" /\ call.result = "ok" /\ call.op = "createDrive"
           /\ ~isSenderBeaker(call.sender))
          => /\ <<extractOrigin(call.sender), call.made>> \in grants
             /\ (call.wrote.outcome # "none" /\ call.wrote.sender = call.sender)
                  => call.wrote.outcome # "prompt"

\* a web page created a drive and wrote to it by its grant, a beaker page
\* created another and holds no grant, and a page without grant was asked
C25_Witness ==
  \E c, d \in Slots :
    /\ creations[c].sender = WebPage /\ creations[c].op = "createDrive"
    /\ creations[c].result = "ok"
    /\ creations[c].wrote = [sender |-> WebPage, outcome |-> "granted"]
    /\ creations[d].sender = BeakerApp /\ creations[d].op = "createDrive"
    /\ creations[d].result = "ok"
    /\ creations[d].wrote = [sender |-> DrivePage, outcome |-> "prompt"]
    /\ Cardinality(grants) = 1

\* write permission on drive key is established in the call of flow f: the
\* call's assertWritePermission passed for that drive, or, at the least, the
\* sender is the drive's own page or holds a grant for it
C24_Established(f, key) ==
  \/ key = f.dst /\ f.permitted
  \/ WritePermissionBypass(f.sender, key)
  \/ queryPermission(grants, f.sender, key)

\* C24 as claimed: when a call of a sender that is not beaker has invoked its
\* storage primitive, write permission is established for every drive the
\* primitive mutates, the source drive of a rename included.
C24_AsClaimed ==
  \A c \in Slots :
    (flows[c].stored > 0 /\ ~isSenderBeaker(flows[c].sender))
    => \A m \in Mutations(flows[c]) : C24_Established(flows[c], m.key)

\* C26 as claimed: every actor-dependent decision of a call is taken for the
\* URL auditLog.record was given for the call, and a call of a page that did
\* not pass isSenderBeaker at its start is never let through as privileged.
C26_AsClaimed ==
  /\ \A d \in visit.used : d.url = visit.caller
  /\ ~isSenderBeaker(visit.caller) => \A d \in visit.used : ~d.bypass

====
